---- MODULE Spec2Model ----
(***************************************************************************)
(* Path planning and smoothing engine of the drone simulation platform:    *)
(* AStarPlanner, RRTPlanner and TrajectorySmoothing of PathPlanner.ts.     *)
(*                                                                         *)
(* Numbers.  The source computes in IEEE doubles.  Here every coordinate   *)
(* and length is an integer count of half units (Units(1) = 2), so that    *)
(* half-unit grid sizes and midpoints are exact.  Every comparison of a    *)
(* distance with a threshold is done on squares and is exact.  Path costs  *)
(* (sums of square roots) are fixed-point: Dist is the distance in tenths  *)
(* of a half unit, rounded down.                                           *)
(***************************************************************************)
EXTENDS Integers, Sequences, FiniteSets, TLC

VARIABLES
    algorithm,   \* the planner class constructed: "astar" or "rrt"
    config,      \* AStarPlanner.config / RRTPlanner.config (PathPlanningConfig)
    aNodes,      \* the PathNode objects created so far; a parent is an index, 0 = null
    openSet,     \* AStarPlanner.openSet: indices into aNodes, in array order
    closedSet,   \* AStarPlanner.closedSet: indices into aNodes, in array order
    nodeMap,     \* AStarPlanner.nodeMap: key -> index into aNodes
    iteration,   \* the loop variable of AStarPlanner.plan
    aPc,         \* position in AStarPlanner.plan: "idle", "loop", "done"
    aOutcome,    \* which return statement of AStarPlanner.plan produced aPath
    aPath,       \* the value returned by the latest AStarPlanner.plan call
    aReturned,   \* the values returned by the plan() calls on this instance, in call order
    nodes,       \* RRTPlanner.nodes
    rIteration,  \* the loop variable of RRTPlanner.plan
    rPc,         \* position in RRTPlanner.plan: "idle", "loop", "reconstruct", "done"
    rOutcome,    \* which call of reconstructPath plan() returns: "reached", "exhausted"
    rCurrent,    \* reconstructPath's current, as an index into nodes (object identity)
    rPath,       \* reconstructPath's path; the value returned once rPc = "done"
    sPath,       \* smoothPath's argument path
    sPoints,     \* smoothPath's argument pointsPerSegment
    sPc,         \* "idle" before the smoothPath call, "done" after it
    smoothed,    \* the value smoothPath returned
    tPath,       \* the path given to generateTrajectoryFromPath
    tCalls,      \* the generateTrajectoryFromPath calls made on tPath, in call order
    droneState,  \* DroneSimulator.droneState
    arrays,      \* the TrajectoryPoint[] objects allocated so far: reference -> content
    trajectoryPoints,  \* DroneSimulator.trajectoryPoints: a reference into arrays
    dCalls,      \* the calls made on the simulator, with their arguments, in call order
    pConfig,     \* the AlgorithmConfig given to AlgorithmParser
    pPc,         \* the AlgorithmParser calls made on pConfig, in call order
    pTrajectory, \* the value generateTrajectory returned
    pErrors,     \* the value validateConfig returned
    qFrom,       \* the argument from of the isPathClear query
    qTo,         \* the argument to of the isPathClear query
    qPc,         \* "idle" before the query, "done" after it
    qClear       \* what isPathClear(from, to), isPointClear(from), isPointClear(to) returned

aVars == <<aNodes, openSet, closedSet, nodeMap, iteration, aPc, aOutcome, aPath, aReturned>>

rVars == <<nodes, rIteration, rPc, rOutcome, rCurrent, rPath>>

sVars == <<sPath, sPoints, sPc, smoothed>>

tVars == <<tPath, tCalls>>

dVars == <<droneState, arrays, trajectoryPoints, dCalls>>

pVars == <<pConfig, pPc, pTrajectory, pErrors>>

qVars == <<qFrom, qTo, qPc, qClear>>

vars == <<algorithm, config, aVars, rVars, sVars, tVars, dVars, pVars, qVars>>

\* What the grid planner, the tree planner and the smoother leave alone.
aFrame == <<algorithm, config, rVars, sVars, tVars, dVars, pVars, qVars>>

rFrame == <<algorithm, config, aVars, sVars, tVars, dVars, pVars, qVars>>

sFrame == <<algorithm, config, aVars, rVars, tVars, dVars, pVars, qVars>>

\* What the resampler, the simulator and the parser leave alone.
tFrame == <<algorithm, config, aVars, rVars, sVars, dVars, pVars, qVars>>

dFrame == <<algorithm, config, aVars, rVars, sVars, tVars, pVars, qVars>>

pFrame == <<algorithm, config, aVars, rVars, sVars, tVars, dVars, qVars>>

\* What the clearance query leaves alone.
qFrame == <<aVars, rVars, sVars, tVars, dVars, pVars>>

-----------------------------------------------------------------------------
(* Bounds of the model. *)

MaxIter == 3      \* largest maxIterations drawn for a scenario
MaxCalls == 2     \* plan() calls made on one planner instance
MaxPath == 6      \* points of rPath that are recorded
MaxLen == 3       \* longest path given to smoothPath
MaxPoints == 3    \* largest pointsPerSegment given to smoothPath
MaxSpeed == 3     \* largest speed given to generateTrajectoryFromPath
MaxOps == 3       \* calls made on one DroneSimulator

-----------------------------------------------------------------------------
(* Arithmetic. *)

Units(n) == 2 * n

Abs(n) == IF n < 0 THEN 0 - n ELSE n

Max(a, b) == IF a > b THEN a ELSE b

Min(a, b) == IF a < b THEN a ELSE b

RECURSIVE SqrtIter(_, _, _)
SqrtIter(n, lo, hi) ==
    IF lo >= hi THEN lo
    ELSE CHOOSE r \in { IF mid * mid <= n THEN SqrtIter(n, mid, hi)
                                          ELSE SqrtIter(n, lo, mid - 1) :
                        mid \in {(lo + hi + 1) \div 2} } : TRUE

\* floor of the square root
ISqrt(n) == SqrtIter(n, 0, 46340)

\* ceiling of the square root
CeilSqrt(n) == CHOOSE c \in { IF r * r = n THEN r ELSE r + 1 : r \in {ISqrt(n)} } : TRUE

Vec(x, y, z) == [x |-> x, y |-> y, z |-> z]

\* the point (x, y, z) given in whole units
P(x, y, z) == Vec(Units(x), Units(y), Units(z))

\* squared Euclidean distance
Dist2(a, b) ==
    (a.x - b.x) * (a.x - b.x) + (a.y - b.y) * (a.y - b.y) + (a.z - b.z) * (a.z - b.z)

\* distance(a, b), in tenths of a half unit
Dist(a, b) == ISqrt(100 * Dist2(a, b))

Scale(k, p) == Vec(k * p.x, k * p.y, k * p.z)

-----------------------------------------------------------------------------
(* Collision model. *)

\* The point num/den (a lattice point when den = 1) is outside every
\* obstacle's radius + droneRadius + 2.
ClearAt(cfg, num, den) ==
    \A k \in 1..Len(cfg.obstacles) :
        LET o == cfg.obstacles[k]
            R == o.radius + cfg.droneRadius + Units(2)
        IN  ~(R > 0 /\ Dist2(num, Scale(den, o.position)) < (R * den) * (R * den))

IsPointClear(cfg, point) == ClearAt(cfg, point, 1)

\* Math.ceil(distance(from, to) / 2)
PathSteps(from, to) == (CeilSqrt(Dist2(from, to)) + Units(2) - 1) \div Units(2)

\* Sample i of steps is from + (to - from) * i / steps.  With steps = 0 the
\* only sample is at t = 0/0 = NaN, every comparison with it is false, and
\* the segment is reported clear.
IsPathClear(cfg, from, to) ==
    \A steps \in {PathSteps(from, to)} :
        IF steps = 0 THEN TRUE
        ELSE \A i \in 0..steps :
                \A sample \in {Vec(steps * from.x + (to.x - from.x) * i,
                                   steps * from.y + (to.y - from.y) * i,
                                   steps * from.z + (to.z - from.z) * i)} :
                    ClearAt(cfg, sample, steps)

\* The clearance queries of a planner on one pair of points: both planner
\* classes carry the same isPointClear and isPathClear.
QueryClear ==
    /\ qPc = "idle"
    /\ qClear' = [path |-> IsPathClear(config, qFrom, qTo),
                  from |-> IsPointClear(config, qFrom),
                  to |-> IsPointClear(config, qTo)]
    /\ qPc' = "done"
    /\ UNCHANGED <<algorithm, config, qFrame, qFrom, qTo>>

-----------------------------------------------------------------------------
(* AStarPlanner. *)

\* Math.round(c / precision) * precision with precision = 1; Math.round
\* rounds halves up.
RoundUnit(c) == (c + Units(1) \div 2) \div Units(1)

getNodeKey(pos) == <<RoundUnit(pos.x), RoundUnit(pos.y), RoundUnit(pos.z)>>

\* The k-th direction of the three nested loops dx, dy, dz = -1..1.
Direction(k) == Vec((k \div 9) - 1, ((k \div 3) % 3) - 1, (k % 3) - 1)

NeighborAt(cfg, pos, k) ==
    LET d == Direction(k)
    IN  Vec(pos.x + d.x * cfg.gridSize, pos.y + d.y * cfg.gridSize, pos.z + d.z * cfg.gridSize)

NeighborOk(cfg, pos, nb) ==
    /\ nb.y >= 0
    /\ nb.y <= Units(100)
    /\ IsPointClear(cfg, nb)
    /\ IsPathClear(cfg, pos, nb)

RECURSIVE NeighborsFrom(_, _, _)
NeighborsFrom(cfg, pos, k) ==
    IF k > 26 THEN <<>>
    ELSE LET nb == NeighborAt(cfg, pos, k)
             rest == NeighborsFrom(cfg, pos, k + 1)
         IN  IF k # 13 /\ NeighborOk(cfg, pos, nb) THEN <<nb>> \o rest ELSE rest

getNeighbors(cfg, pos) == NeighborsFrom(cfg, pos, 0)

F(n) == n.g + n.h

\* Mutant: the scan replaces its candidate on f <= minF.
MinIndexLast(pool, open) ==
    CHOOSE i \in 1..Len(open) :
        /\ \A j \in 1..Len(open) : F(pool[open[i]]) <= F(pool[open[j]])
        /\ \A j \in (i + 1)..Len(open) : F(pool[open[j]]) > F(pool[open[i]])

\* The index in openSet found by the scan for the smallest f: the first one
\* of the smallest f, since the scan replaces its candidate only on f < minF.
MinIndex(pool, open) ==
    CHOOSE i \in 1..Len(open) :
        /\ \A j \in 1..Len(open) : F(pool[open[i]]) <= F(pool[open[j]])
        /\ \A j \in 1..(i - 1) : F(pool[open[j]]) > F(pool[open[i]])

RemoveAt(s, i) == SubSeq(s, 1, i - 1) \o SubSeq(s, i + 1, Len(s))

InClosed(pool, closed, key) ==
    \E i \in 1..Len(closed) : getNodeKey(pool[closed[i]].position) = key

\* Map.set(key, id)
MapSet(map, key, id) == (key :> id) @@ map

\* Mutant: a candidate of equal cost replaces the recorded node.
StrictlyWorse(tentativeG, existingG) == tentativeG > existingG

\* tentativeG >= existingNode.g: the candidate is skipped
NotBetter(tentativeG, existingG) == tentativeG >= existingG

\* Mutant: the cost of the last step only.
StepCost(pool, cur, nb) == Dist(pool[cur].position, nb)

\* current.g + distance(current.position, neighborPos)
TentativeG(pool, cur, nb) == pool[cur].g + Dist(pool[cur].position, nb)

\* One pass of the loop over getNeighbors(current): st holds the nodes, the
\* open set and the node map as the earlier passes left them.
VisitNeighbor(cfg, st, closed, cur, nb) ==
    LET key == getNodeKey(nb)
        tentativeG == TentativeG(st.nodes, cur, nb)
        known == key \in DOMAIN st.map
    IN  IF InClosed(st.nodes, closed, key) THEN st
        ELSE IF known /\ NotBetter(tentativeG, st.nodes[st.map[key]].g) THEN st
        ELSE LET neighbor == [position |-> nb, g |-> tentativeG,
                              h |-> Dist(nb, cfg.endPos), parent |-> cur]
                 id == Len(st.nodes) + 1
             IN  [nodes |-> Append(st.nodes, neighbor),
                  open |-> Append(st.open, id),
                  map |-> MapSet(st.map, key, id)]

RECURSIVE VisitAll(_, _, _, _, _, _)
VisitAll(cfg, st, closed, cur, nbs, k) ==
    IF k > Len(nbs) THEN st
    ELSE CHOOSE out \in { VisitAll(cfg, nxt, closed, cur, nbs, k + 1) :
                              nxt \in {VisitNeighbor(cfg, st, closed, cur, nbs[k])} } : TRUE

\* reconstructPath(node): the positions along the parent references, root first.
RECURSIVE aReconstructPath(_, _)
aReconstructPath(pool, id) ==
    IF id = 0 THEN <<>>
    ELSE Append(aReconstructPath(pool, pool[id].parent), pool[id].position)

\* Mutant: the midpoint raised above the lower of start and goal.
midPointAboveLower(cfg) ==
    Vec((cfg.startPos.x + cfg.endPos.x) \div 2,
        Min(cfg.startPos.y, cfg.endPos.y) + Units(20),
        (cfg.startPos.z + cfg.endPos.z) \div 2)

midPoint(cfg) ==
    Vec((cfg.startPos.x + cfg.endPos.x) \div 2,
        Max(cfg.startPos.y, cfg.endPos.y) + Units(20),
        (cfg.startPos.z + cfg.endPos.z) \div 2)

\* Mutant: the goal is not pushed.
getAlternativePathNoGoal(cfg) ==
    IF IsPathClear(cfg, cfg.startPos, midPoint(cfg))
    THEN <<cfg.startPos, midPoint(cfg)>>
    ELSE <<cfg.startPos>>

\* Mutant: the midpoint is used without checking its segment from start.
getAlternativePathUnchecked(cfg) == <<cfg.startPos, midPoint(cfg), cfg.endPos>>

getAlternativePath(cfg) ==
    IF IsPathClear(cfg, cfg.startPos, midPoint(cfg))
    THEN <<cfg.startPos, midPoint(cfg), cfg.endPos>>
    ELSE <<cfg.startPos, cfg.endPos>>

\* Mutant: one loop pass too many.
LoopContinuesOffByOne(cfg, it) == it <= cfg.maxIterations

\* The loop condition of plan(): iteration < maxIterations.
LoopContinues(cfg, it) == it < cfg.maxIterations

\* Mutant: only the start point is tested.
StartBlockedOnly(cfg) == ~IsPointClear(cfg, cfg.startPos)

\* The guard of plan()'s first return.
StartOrEndBlocked(cfg) == ~IsPointClear(cfg, cfg.startPos) \/ ~IsPointClear(cfg, cfg.endPos)

\* What plan() returns when the iteration cap is hit.
ExhaustedPath(cfg) == getAlternativePath(cfg)

Return(path, outcome) ==
    /\ aPath' = path
    /\ aOutcome' = outcome
    /\ aReturned' = Append(aReturned, path)
    /\ aPc' = "done"

\* plan() up to the loop.  The planner's fields are only ever initialised
\* by the field initialisers: plan() does not reset them.
APlanBegin ==
    /\ UNCHANGED aFrame
    /\ algorithm = "astar"
    /\ aPc \in {"idle", "done"}
    /\ Len(aReturned) < MaxCalls
    /\ iteration' = 0
    /\ IF StartOrEndBlocked(config)
       THEN /\ Return(<<config.startPos, config.endPos>>, "blocked")
            /\ UNCHANGED <<aNodes, openSet, nodeMap>>
       ELSE LET startNode == [position |-> config.startPos, g |-> 0,
                              h |-> Dist(config.startPos, config.endPos), parent |-> 0]
                id == Len(aNodes) + 1
                key == getNodeKey(config.startPos)
            IN  /\ aNodes' = Append(aNodes, startNode)
                /\ openSet' = Append(openSet, id)
                /\ nodeMap' = MapSet(nodeMap, key, id)
                /\ aPc' = "loop"
                /\ UNCHANGED <<aPath, aOutcome, aReturned>>
    /\ UNCHANGED closedSet

\* A loop pass that finds the open set empty.
APlanOpenEmpty ==
    /\ UNCHANGED aFrame
    /\ aPc = "loop"
    /\ LoopContinues(config, iteration)
    /\ Len(openSet) = 0
    /\ IF IsPathClear(config, config.startPos, config.endPos)
       THEN Return(<<config.startPos, config.endPos>>, "emptyDirect")
       ELSE Return(getAlternativePath(config), "emptyAlternative")
    /\ UNCHANGED <<aNodes, openSet, closedSet, nodeMap, iteration>>

\* Mutant: the goal test with the threshold 3 * gridSize.
GoalReachedWithinThree(cfg, pos) ==
    /\ Dist2(pos, cfg.endPos) < (cfg.gridSize * 3) * (cfg.gridSize * 3)
    /\ cfg.gridSize * 3 > 0
    /\ IsPathClear(cfg, pos, cfg.endPos)

GoalReached(cfg, pos) ==
    /\ Dist2(pos, cfg.endPos) < (cfg.gridSize * 2) * (cfg.gridSize * 2)
    /\ cfg.gridSize * 2 > 0
    /\ IsPathClear(cfg, pos, cfg.endPos)

\* A loop pass whose minimum-f node passes the goal test.
APlanFound ==
    /\ UNCHANGED aFrame
    /\ aPc = "loop"
    /\ LoopContinues(config, iteration)
    /\ Len(openSet) > 0
    /\ LET current == openSet[MinIndex(aNodes, openSet)]
       IN  /\ GoalReached(config, aNodes[current].position)
           /\ Return(Append(aReconstructPath(aNodes, current), config.endPos), "found")
    /\ UNCHANGED <<aNodes, openSet, closedSet, nodeMap, iteration>>

\* A loop pass that expands the minimum-f node.
APlanExpand ==
    /\ UNCHANGED aFrame
    /\ aPc = "loop"
    /\ LoopContinues(config, iteration)
    /\ Len(openSet) > 0
    /\ \E minIndex \in {MinIndex(aNodes, openSet)} :
       \E current \in {openSet[minIndex]} :
       \E neighbors \in {getNeighbors(config, aNodes[current].position)} :
       \E closed \in {Append(closedSet, current)} :
       \E st \in {VisitAll(config,
                           [nodes |-> aNodes, open |-> RemoveAt(openSet, minIndex),
                            map |-> nodeMap],
                           closed, current, neighbors, 1)} :
           /\ ~GoalReached(config, aNodes[current].position)
           /\ closedSet' = closed
           /\ aNodes' = st.nodes
           /\ openSet' = st.open
           /\ nodeMap' = st.map
    /\ iteration' = iteration + 1
    /\ UNCHANGED <<aPc, aOutcome, aPath, aReturned>>

\* The loop ran maxIterations passes without returning.
APlanExhausted ==
    /\ UNCHANGED aFrame
    /\ aPc = "loop"
    /\ ~LoopContinues(config, iteration)
    /\ Return(ExhaustedPath(config), "exhausted")
    /\ UNCHANGED <<aNodes, openSet, closedSet, nodeMap, iteration>>

-----------------------------------------------------------------------------
(* RRTPlanner.  Its isPointClear and isPathClear are copies of the grid    *)
(* planner's and are modelled by the same operators.                       *)

\* The points Math.random() can make randomPoint() return are drawn from
\* this set: x, z in [-100, 100), y in [5, 55).
SamplePoints == {P(10, 5, 0), P(0, 5, 10), P(-10, 5, -10)}

\* nearestNode(point): the first node at the smallest distance.
nearestNode(ns, point) ==
    CHOOSE i \in 1..Len(ns) :
        /\ \A j \in 1..Len(ns) : Dist2(point, ns[i]) <= Dist2(point, ns[j])
        /\ \A j \in 1..(i - 1) : Dist2(point, ns[j]) > Dist2(point, ns[i])

\* One coordinate of from + (to - from) * stepSize / dist, cut to the
\* half-unit lattice towards from.
StepCoord(delta, stepSize, d2) ==
    LET k == ISqrt(((delta * stepSize) * (delta * stepSize)) \div d2)
    IN  IF delta < 0 THEN 0 - k ELSE k

\* Mutant: a step of twice the step size.
stepTwice(from, to, stepSize) ==
    LET d2 == Dist2(from, to)
    IN  IF stepSize > 0 /\ d2 < (2 * stepSize) * (2 * stepSize) THEN to
        ELSE Vec(from.x + StepCoord(to.x - from.x, 2 * stepSize, d2),
                 from.y + StepCoord(to.y - from.y, 2 * stepSize, d2),
                 from.z + StepCoord(to.z - from.z, 2 * stepSize, d2))

step(from, to, stepSize) ==
    LET d2 == Dist2(from, to)
    IN  IF stepSize > 0 /\ d2 < stepSize * stepSize THEN to
        ELSE Vec(from.x + StepCoord(to.x - from.x, stepSize, d2),
                 from.y + StepCoord(to.y - from.y, stepSize, d2),
                 from.z + StepCoord(to.z - from.z, stepSize, d2))

\* The acceptance test of a new point.
Accepts(cfg, nearest, newPoint) ==
    IsPointClear(cfg, newPoint) /\ IsPathClear(cfg, nearest, newPoint)

\* The termination test on an accepted point.
Reaches(cfg, newPoint) ==
    /\ cfg.gridSize * 3 > 0
    /\ Dist2(newPoint, cfg.endPos) < (cfg.gridSize * 3) * (cfg.gridSize * 3)
    /\ IsPathClear(cfg, newPoint, cfg.endPos)

\* The first node at the smallest distance to the goal.
closestNode(cfg, ns) == nearestNode(ns, cfg.endPos)

\* The nodes reconstructPath considers as predecessor of nodes[cur]: every
\* other node object with a clear segment to it.
Visible(cfg, ns, cur) ==
    { i \in 1..Len(ns) : i # cur /\ IsPathClear(cfg, ns[i], ns[cur]) }

\* The predecessor reconstructPath moves to: the first visible node at the
\* smallest distance (0 when there is none and the loop breaks).
Predecessor(cfg, ns, cur) ==
    CHOOSE p \in { IF vis = {} THEN 0
                   ELSE CHOOSE i \in vis :
                          /\ \A j \in vis : Dist2(ns[i], ns[cur]) <= Dist2(ns[j], ns[cur])
                          /\ \A j \in vis :
                                j < i => Dist2(ns[j], ns[cur]) > Dist2(ns[i], ns[cur])
                   : vis \in {Visible(cfg, ns, cur)} } : TRUE

\* path.unshift(point); at most MaxPath points are recorded.
Unshift(path, point) == IF Len(path) < MaxPath THEN <<point>> \o path ELSE path

\* plan() up to the loop.
RPlanBegin ==
    /\ algorithm = "rrt"
    /\ rPc = "idle"
    /\ nodes' = <<config.startPos>>
    /\ rIteration' = 0
    /\ rPc' = "loop"
    /\ UNCHANGED <<rFrame, rOutcome, rCurrent, rPath>>

\* A loop pass whose new point is not accepted.
RPlanReject ==
    /\ rPc = "loop"
    /\ rIteration < config.maxIterations
    /\ \E randomPoint \in SamplePoints \cup {config.endPos} :
          \E nearest \in {nodes[nearestNode(nodes, randomPoint)]} :
          \E newPoint \in {step(nearest, randomPoint, config.gridSize * 2)} :
              ~Accepts(config, nearest, newPoint)
    /\ rIteration' = rIteration + 1
    /\ UNCHANGED <<rFrame, nodes, rPc, rOutcome, rCurrent, rPath>>

\* A loop pass that appends its new point and goes on.
RPlanGrow ==
    /\ rPc = "loop"
    /\ rIteration < config.maxIterations
    /\ \E randomPoint \in SamplePoints \cup {config.endPos} :
          \E nearest \in {nodes[nearestNode(nodes, randomPoint)]} :
          \E newPoint \in {step(nearest, randomPoint, config.gridSize * 2)} :
              /\ Accepts(config, nearest, newPoint)
              /\ ~Reaches(config, newPoint)
              /\ nodes' = Append(nodes, newPoint)
    /\ rIteration' = rIteration + 1
    /\ UNCHANGED <<rFrame, rPc, rOutcome, rCurrent, rPath>>

\* A loop pass that appends its new point and calls reconstructPath(newPoint).
RPlanReach ==
    /\ rPc = "loop"
    /\ rIteration < config.maxIterations
    /\ \E randomPoint \in SamplePoints \cup {config.endPos} :
          \E nearest \in {nodes[nearestNode(nodes, randomPoint)]} :
          \E newPoint \in {step(nearest, randomPoint, config.gridSize * 2)} :
              /\ Accepts(config, nearest, newPoint)
              /\ Reaches(config, newPoint)
              /\ nodes' = Append(nodes, newPoint)
              /\ rCurrent' = Len(nodes) + 1
    /\ rPc' = "reconstruct"
    /\ rOutcome' = "reached"
    /\ rPath' = <<>>
    /\ UNCHANGED <<rFrame, rIteration>>

\* The loop ran maxIterations passes: reconstructPath(closest).
RPlanExhausted ==
    /\ rPc = "loop"
    /\ rIteration >= config.maxIterations
    /\ rCurrent' = closestNode(config, nodes)
    /\ rPc' = "reconstruct"
    /\ rOutcome' = "exhausted"
    /\ rPath' = <<>>
    /\ UNCHANGED <<rFrame, nodes, rIteration>>

\* A pass of reconstructPath's loop that moves on to a predecessor.
RReconstructStep ==
    /\ rPc = "reconstruct"
    /\ \E predecessor \in {Predecessor(config, nodes, rCurrent)} :
          /\ predecessor # 0
          /\ rCurrent' = predecessor
    /\ rPath' = Unshift(rPath, nodes[rCurrent])
    /\ UNCHANGED <<rFrame, nodes, rIteration, rPc, rOutcome>>

\* The pass of reconstructPath's loop that breaks, and the return.
RReconstructReturn ==
    /\ rPc = "reconstruct"
    /\ Predecessor(config, nodes, rCurrent) = 0
    /\ rPath' = Append(Unshift(rPath, nodes[rCurrent]), config.endPos)
    /\ rPc' = "done"
    /\ UNCHANGED <<rFrame, nodes, rIteration, rOutcome, rCurrent>>

-----------------------------------------------------------------------------
(* TrajectorySmoothing.  An interpolated coordinate is a rational number;  *)
(* a point of the result is kept as numerators x, y, z over one            *)
(* denominator den.                                                        *)

Exact(p) == [x |-> p.x, y |-> p.y, z |-> p.z, den |-> 1]

SamePoint(a, b) ==
    /\ a.x * b.den = b.x * a.den
    /\ a.y * b.den = b.y * a.den
    /\ a.z * b.den = b.z * a.den

\* Mutant: the spline's constant term is taken from p0.
CatmullRomThroughP0(p0, p1, p2, p3, t, n) ==
    (2 * p0) * (n * n * n)
    + (p2 - p0) * (t * n * n)
    + (2 * p0 - 5 * p1 + 4 * p2 - p3) * (t * t * n)
    + (3 * p1 - p0 - 3 * p2 + p3) * (t * t * t)

\* 0.5 * (2 p1 + (-p0 + p2) s + (2 p0 - 5 p1 + 4 p2 - p3) s^2
\*        + (-p0 + 3 p1 - 3 p2 + p3) s^3) at s = t / n, times 2 n^3
CatmullRom(p0, p1, p2, p3, t, n) ==
    (2 * p1) * (n * n * n)
    + (p2 - p0) * (t * n * n)
    + (2 * p0 - 5 * p1 + 4 * p2 - p3) * (t * t * n)
    + (3 * p1 - p0 - 3 * p2 + p3) * (t * t * t)

\* The point pushed for segment i (0-based, as in the source) at step t.
SmoothPoint(path, i, t, n) ==
    LET p0 == path[Max(0, i - 1) + 1]
        p1 == path[i + 1]
        p2 == path[i + 2]
        p3 == path[Min(Len(path) - 1, i + 2) + 1]
    IN  [x |-> CatmullRom(p0.x, p1.x, p2.x, p3.x, t, n),
         y |-> CatmullRom(p0.y, p1.y, p2.y, p3.y, t, n),
         z |-> CatmullRom(p0.z, p1.z, p2.z, p3.z, t, n),
         den |-> 2 * n * n * n]

\* Mutant: the loop over t starts at 1.
SegmentPointsFromOne(path, i, n) ==
    [k \in 1..Max(0, n - 1) |-> SmoothPoint(path, i, k, n)]

\* The points pushed for segment i: t = 0 .. pointsPerSegment - 1.
SegmentPoints(path, i, n) ==
    [k \in 1..Max(0, n) |-> SmoothPoint(path, i, k - 1, n)]

RECURSIVE SegmentsFrom(_, _, _)
SegmentsFrom(path, i, n) ==
    IF i >= Len(path) - 1 THEN <<>>
    ELSE SegmentPoints(path, i, n) \o SegmentsFrom(path, i + 1, n)

\* Mutant: the last input point is not pushed.
smoothPathNoLast(path, pointsPerSegment) ==
    IF Len(path) < 2 THEN [k \in 1..Len(path) |-> Exact(path[k])]
    ELSE SegmentsFrom(path, 0, pointsPerSegment)

smoothPath(path, pointsPerSegment) ==
    IF Len(path) < 2 THEN [k \in 1..Len(path) |-> Exact(path[k])]
    ELSE Append(SegmentsFrom(path, 0, pointsPerSegment), Exact(path[Len(path)]))

Smooth ==
    /\ sPc = "idle"
    /\ smoothed' = smoothPath(sPath, sPoints)
    /\ sPc' = "done"
    /\ UNCHANGED <<sFrame, sPath, sPoints>>

-----------------------------------------------------------------------------
(* DroneSimulatorV2.generateTrajectoryFromPath.  The paths drawn have      *)
(* segments of whole length, so that every length is exact.  A position    *)
(* is kept as numerators x, y, z over one denominator den; den = 0 stands  *)
(* for NaN, the result of 0 / 0.                                           *)

\* Math.max(100, ...)
MinSamples == 100

\* Math.sqrt(dx * dx + dy * dy + dz * dz), in half units
SegmentDistance(path, j) == ISqrt(Dist2(path[j], path[j + 1]))

\* The running sums of totalDistance: entry j is the length of the path up
\* to its point j, in half units.
RECURSIVE CumulativeDistance(_, _)
CumulativeDistance(path, j) ==
    IF j <= 1 THEN <<0>>
    ELSE CHOOSE cum \in { Append(prev, prev[j - 1] + SegmentDistance(path, j - 1)) :
                          prev \in {CumulativeDistance(path, j - 1)} } : TRUE

\* totalDistance, in half units
TotalDistance(path) ==
    IF Len(path) = 0 THEN 0 ELSE CumulativeDistance(path, Len(path))[Len(path)]

\* Mutant: totalTime = totalDistance * speed.
pointsCountTimesSpeed(totalDistance, speed) ==
    Max(MinSamples, (10 * totalDistance * speed) \div Units(1))

\* Math.max(100, Math.floor(totalTime * 10)) with totalTime = totalDistance / speed
pointsCount(totalDistance, speed) ==
    Max(MinSamples, (10 * totalDistance) \div (Units(1) * speed))

\* The segment the inner loop breaks at for sample i of n: the first j with
\* currentDistance + segmentDistance >= distanceAlongPath (0 when the loop
\* runs out).
RECURSIVE BreakSegment(_, _, _, _)
BreakSegment(cum, i, n, j) ==
    IF j >= Len(cum) THEN 0
    ELSE IF cum[j + 1] * n >= cum[Len(cum)] * i THEN j
    ELSE BreakSegment(cum, i, n, j + 1)

\* position of sample i of n
SamplePosition(path, cum, i, n) ==
    CHOOSE pos \in
        { IF j = 0 THEN Exact(path[1])
          ELSE IF cum[j + 1] = cum[j] THEN [x |-> 0, y |-> 0, z |-> 0, den |-> 0]
          ELSE [x |-> path[j].x * (n * (cum[j + 1] - cum[j]))
                      + (path[j + 1].x - path[j].x) * (cum[Len(cum)] * i - cum[j] * n),
                y |-> path[j].y * (n * (cum[j + 1] - cum[j]))
                      + (path[j + 1].y - path[j].y) * (cum[Len(cum)] * i - cum[j] * n),
                z |-> path[j].z * (n * (cum[j + 1] - cum[j]))
                      + (path[j + 1].z - path[j].z) * (cum[Len(cum)] * i - cum[j] * n),
                den |-> n * (cum[j + 1] - cum[j])] :
          j \in {BreakSegment(cum, i, n, 1)} } : TRUE

\* Mutant: the samples are taken at progress (i + 1) / n.
TrajectoryPointAhead(path, cum, speed, i, n) ==
    [position |-> SamplePosition(path, cum, i + 1, n),
     timestamp |-> [num |-> (i + 1) * cum[Len(cum)], den |-> n * (Units(1) * speed)],
     velocity |-> speed]

\* Mutant: the timestamps count down from totalTime.
TrajectoryPointCountingDown(path, cum, speed, i, n) ==
    [position |-> SamplePosition(path, cum, i, n),
     timestamp |-> [num |-> (n - i) * cum[Len(cum)], den |-> n * (Units(1) * speed)],
     velocity |-> speed]

\* The trajectory point pushed for sample i of n; the timestamp
\* (i / n) * totalTime is kept as num / den.
TrajectoryPoint(path, cum, speed, i, n) ==
    [position |-> SamplePosition(path, cum, i, n),
     timestamp |-> [num |-> i * cum[Len(cum)], den |-> n * (Units(1) * speed)],
     velocity |-> speed]

generateTrajectoryFromPath(path, speed) ==
    CHOOSE trajectory \in
        { [k \in 1..n |-> TrajectoryPoint(path, cum, speed, k - 1, n)] :
          <<cum, n>> \in { <<c, pointsCount(c[Len(c)], speed)>> :
                           c \in {CumulativeDistance(path, Len(path))} } } : TRUE

\* A call on a non-empty path.
Resample ==
    /\ Len(tPath) >= 1
    /\ Len(tCalls) < MaxCalls
    /\ \E speed \in 1..MaxSpeed :
          tCalls' = Append(tCalls, [speed |-> speed, outcome |-> "returned",
                                    trajectory |-> generateTrajectoryFromPath(tPath, speed)])
    /\ UNCHANGED <<tFrame, tPath>>

\* A call on the empty path: position is path[0] = undefined, and reading
\* position.x throws.
ResampleThrows ==
    /\ Len(tPath) = 0
    /\ Len(tCalls) < MaxCalls
    /\ \E speed \in 1..MaxSpeed :
          tCalls' = Append(tCalls, [speed |-> speed, outcome |-> "TypeError",
                                    trajectory |-> <<>>])
    /\ UNCHANGED <<tFrame, tPath>>

-----------------------------------------------------------------------------
(* DroneSimulator (and DroneSimulatorV2, whose state methods are the       *)
(* same): the drone state and the trajectory points.  A TrajectoryPoint[]  *)
(* is an object: arrays maps each reference to the array's content, and    *)
(* setTrajectory stores the reference it is given, not a copy.             *)

\* droneState as the constructor sets it.
InitialDroneState ==
    [position |-> <<0, 0, 0>>, rotation |-> <<0, 0, 0>>, velocity |-> <<0, 0, 0>>,
     battery |-> 100, status |-> "idle"]

\* Mutant: the fields the partial state leaves out are reset.
SpreadResetting(state, partial) ==
    [f \in DOMAIN state |-> IF f \in DOMAIN partial THEN partial[f]
                            ELSE InitialDroneState[f]]

\* { ...state, ...partial }
Spread(state, partial) ==
    [f \in DOMAIN state \cup DOMAIN partial |->
        IF f \in DOMAIN partial THEN partial[f] ELSE state[f]]

\* Mutant: unshift instead of push.
PushFront(array, point) == <<point>> \o array

\* array.push(point)
Push(array, point) == Append(array, point)

\* The Partial<DroneState> arguments drawn.
PartialStates ==
    { [position |-> <<5, 5, 5>>],
      [battery |-> 50],
      [battery |-> 75, status |-> "flying"],
      [position |-> <<10, 20, 30>>, velocity |-> <<1, 2, 3>>, battery |-> 75,
       status |-> "flying"] }

\* The TrajectoryPoint arguments drawn.
TrajectoryPoints ==
    { [position |-> <<0, 0, 0>>, timestamp |-> 0, velocity |-> 0],
      [position |-> <<1, 1, 1>>, timestamp |-> 1, velocity |-> 5] }

\* The contents of the arrays the caller builds for setTrajectory.
CallerArrays ==
    { <<[position |-> <<0, 0, 0>>, timestamp |-> 0, velocity |-> 0]>>,
      <<[position |-> <<0, 0, 0>>, timestamp |-> 0, velocity |-> 0],
        [position |-> <<1, 1, 1>>, timestamp |-> 1, velocity |-> 5]>> }

getTrajectoryPoints == arrays[trajectoryPoints]

getDroneState == droneState

SetDroneState ==
    /\ Len(dCalls) < MaxOps
    /\ \E state \in PartialStates :
          /\ droneState' = Spread(droneState, state)
          /\ dCalls' = Append(dCalls, [op |-> "setDroneState", state |-> state])
    /\ UNCHANGED <<dFrame, arrays, trajectoryPoints>>

AddTrajectoryPoint ==
    /\ Len(dCalls) < MaxOps
    /\ \E point \in TrajectoryPoints :
          /\ arrays' = [arrays EXCEPT ![trajectoryPoints] = Push(@, point)]
          /\ dCalls' = Append(dCalls, [op |-> "addTrajectoryPoint", point |-> point])
    /\ UNCHANGED <<dFrame, droneState, trajectoryPoints>>

\* setTrajectory(points) with an array the caller has just built.
SetTrajectoryNew ==
    /\ Len(dCalls) < MaxOps
    /\ \E points \in CallerArrays :
          /\ arrays' = Append(arrays, points)
          /\ trajectoryPoints' = Len(arrays) + 1
          /\ dCalls' = Append(dCalls, [op |-> "setTrajectory", points |-> points])
    /\ UNCHANGED <<dFrame, droneState>>

\* setTrajectory(points) with an array passed or returned before: the
\* simulator may have pushed points onto it since.
SetTrajectoryAgain ==
    /\ Len(dCalls) < MaxOps
    /\ \E reference \in 1..Len(arrays) :
          /\ trajectoryPoints' = reference
          /\ dCalls' = Append(dCalls, [op |-> "setTrajectory", points |-> arrays[reference]])
    /\ UNCHANGED <<dFrame, droneState, arrays>>

ClearTrajectory ==
    /\ Len(dCalls) < MaxOps
    /\ arrays' = Append(arrays, <<>>)
    /\ trajectoryPoints' = Len(arrays) + 1
    /\ dCalls' = Append(dCalls, [op |-> "clearTrajectory"])
    /\ UNCHANGED <<dFrame, droneState>>

-----------------------------------------------------------------------------
(* AlgorithmParser.generateTrajectory and validateConfig.  A number of the *)
(* configuration is a record: kind "number" with its value, or kind "NaN"  *)
(* (parseFloat gives NaN for a max_speed token such as ".").  The          *)
(* trajectory's coordinates and velocities are in thousandths.             *)

Num(v) == [kind |-> "number", value |-> v]

NaN == [kind |-> "NaN", value |-> 0]

\* n <= 0 as JavaScript evaluates it: false for NaN.
LeqZero(n) == n.kind = "number" /\ n.value <= 0

\* const duration = 50, const points = 500
Duration == 50
Points == 500

\* sin(pi * k / n) in thousandths for 0 <= 2k <= n, by its Taylor
\* polynomial in x = pi * k / n (in thousandths): within 2 thousandths of
\* the sine, exact at 0 and at pi / 2.
SinQuadrant(k, n) ==
    IF k = 0 THEN 0
    ELSE IF 2 * k = n THEN 1000
    ELSE CHOOSE s \in
            { Min(1000, x - x3 \div 6 + (x3 * x2) \div 120000
                          - (((x3 * x2) \div 1000) * x2) \div 5040000) :
              <<x, x2, x3>> \in
                 { <<y, (y * y) \div 1000, (((y * y) \div 1000) * y) \div 1000>> :
                   y \in {(3142 * k) \div n} } } : TRUE

\* sin(pi * k / n) in thousandths, for every k >= 0
Sin(k, n) ==
    CHOOSE s \in
        { IF r <= n
          THEN SinQuadrant(IF 2 * r <= n THEN r ELSE n - r, n)
          ELSE 0 - SinQuadrant(IF 2 * (r - n) <= n THEN r - n ELSE 2 * n - r, n) :
          r \in {k % (2 * n)} } : TRUE

\* cos(pi * k / n) = sin(pi * k / n + pi / 2), for even n
Cos(k, n) == Sin(k + n \div 2, n)

\* 30 * (1 - Math.abs(progress - 0.5) * 2), in thousandths
Radius(i) == (30000 * (Points - Abs(2 * i - Points))) \div Points

\* Math.max(0, config.initialPosition[1] + Math.sin(progress * Math.PI) * 40)
Altitude(cfg, i) == Max(0, 1000 * cfg.initialPosition[2] + 40 * Sin(i, Points))

\* Math.min(config.maxSpeed * (0.5 + 0.5 * Math.sin(progress * Math.PI)), config.maxSpeed)
Velocity(cfg, i) ==
    IF cfg.maxSpeed.kind = "NaN" THEN NaN
    ELSE Num(Min(cfg.maxSpeed.value * (500 + Sin(i, Points) \div 2),
                 1000 * cfg.maxSpeed.value))

\* The trajectory point pushed for index i.
ParserPoint(cfg, i) ==
    [position |-> <<1000 * cfg.initialPosition[1]
                       + (Cos(4 * i, Points) * Radius(i)) \div 1000,
                    Altitude(cfg, i),
                    1000 * cfg.initialPosition[3]
                       + (Sin(4 * i, Points) * Radius(i)) \div 1000>>,
     timestamp |-> (1000 * i * Duration) \div Points,
     velocity |-> Velocity(cfg, i)]

generateTrajectory(cfg) == [k \in 1..Points |-> ParserPoint(cfg, k - 1)]

Whitespace == {" ", "\t"}

\* !name || name.trim() === "" ; a name is its sequence of characters
Blank(name) == \A k \in 1..Len(name) : name[k] \in Whitespace

\* The messages, in the order validateConfig pushes them.
validateConfig(cfg) ==
    (IF Blank(cfg.name) THEN <<"name must not be empty">> ELSE <<>>)
    \o (IF LeqZero(cfg.maxAltitude) THEN <<"maxAltitude must be greater than 0">> ELSE <<>>)
    \o (IF LeqZero(cfg.maxSpeed) THEN <<"maxSpeed must be greater than 0">> ELSE <<>>)
    \o (IF LeqZero(cfg.gravity) THEN <<"gravity must be greater than 0">> ELSE <<>>)

\* A generateTrajectory(pConfig) call.
GenerateTrajectory ==
    /\ \A k \in 1..Len(pPc) : pPc[k] # "generateTrajectory"
    /\ pTrajectory' = generateTrajectory(pConfig)
    /\ pPc' = Append(pPc, "generateTrajectory")
    /\ UNCHANGED <<pFrame, pConfig, pErrors>>

\* A validateConfig(pConfig) call.
ValidateConfig ==
    /\ \A k \in 1..Len(pPc) : pPc[k] # "validateConfig"
    /\ pErrors' = validateConfig(pConfig)
    /\ pPc' = Append(pPc, "validateConfig")
    /\ UNCHANGED <<pFrame, pConfig, pTrajectory>>

-----------------------------------------------------------------------------
(* Scenarios: the configurations a planner is constructed with. *)

Obstacle(x, y, z, radius) == [position |-> P(x, y, z), radius |-> Units(radius)]

Scenario(startPos, endPos, obstacles, gridSize, droneRadius, maxIterations) ==
    [startPos |-> startPos, endPos |-> endPos, obstacles |-> obstacles,
     gridSize |-> gridSize, droneRadius |-> Units(droneRadius),
     maxIterations |-> maxIterations]

\* Start, goal, obstacles, gridSize (in half units) and droneRadius of the
\* scenarios drawn; maxIterations is drawn separately.
Layouts ==
    { \* free space, the goal three diagonal grid steps away
      Scenario(P(0, 0, 0), P(6, 0, 6), <<>>, Units(2), 1, 0),
      \* free space, an obstacle on the raised midpoint only
      Scenario(P(0, 0, 0), P(6, 0, 6), <<Obstacle(3, 20, 3, 1)>>, Units(2), 1, 0),
      \* one obstacle between start and goal
      Scenario(P(0, 0, 0), P(8, 0, 0), <<Obstacle(4, 0, 2, 1)>>, Units(4), 1, 0),
      Scenario(P(0, 0, 0), P(6, 0, 0), <<Obstacle(3, 0, 0, 0)>>, Units(2), 0, 0),
      \* start inside an obstacle
      Scenario(P(0, 0, 0), P(8, 0, 0), <<Obstacle(1, 0, 0, 3)>>, Units(2), 1, 0),
      \* goal inside an obstacle
      Scenario(P(0, 0, 0), P(8, 0, 0), <<Obstacle(8, 1, 0, 3)>>, Units(2), 1, 0),
      \* start under the ceiling with every neighbour blocked; the direct
      \* segment to the goal is clear
      Scenario(P(0, 100, 0), P(0, 104, 0),
               <<Obstacle(2, 96, 4, 3), Obstacle(-2, 96, -4, 3)>>, Units(1), 1, 0),
      \* the same, the direct segment blocked and the raised midpoint reachable
      Scenario(P(0, 100, 0), P(0, 92, 0),
               <<Obstacle(2, 96, 4, 3), Obstacle(-2, 96, -4, 3)>>, Units(1), 1, 0),
      \* start on the floor with every neighbour blocked; the direct segment
      \* and the segment to the raised midpoint are both blocked
      Scenario(P(0, 0, 0), P(4, 0, 0),
               <<Obstacle(2, 4, 4, 3), Obstacle(-2, 4, -4, 3)>>, Units(1), 1, 0),
      \* gridSize = 0
      Scenario(P(0, 0, 0), P(6, 0, 6), <<>>, 0, 1, 0),
      \* gridSize = 0.5, free space
      Scenario(P(0, 0, 0), P(1, 0, 0), <<>>, 1, 1, 0),
      \* gridSize = 0.5, free space, the goal ten grid steps above the start
      Scenario(P(0, 0, 0), P(0, 5, 0), <<>>, 1, 1, 0)
    }

Scenarios ==
    { [l EXCEPT !.maxIterations = m] : l \in Layouts, m \in 0..MaxIter }

RLayouts ==
    { \* free space
      Scenario(P(0, 0, 0), P(6, 0, 6), <<>>, Units(2), 1, 0),
      \* an obstacle between start and goal
      Scenario(P(0, 0, 0), P(6, 0, 6), <<Obstacle(3, 0, 3, 0)>>, Units(2), 0, 0),
      \* start inside an obstacle
      Scenario(P(0, 0, 0), P(8, 0, 0), <<Obstacle(1, 0, 0, 3)>>, Units(2), 1, 0)
    }

RScenarios ==
    { [l EXCEPT !.maxIterations = m] : l \in RLayouts, m \in 0..MaxIter }

-----------------------------------------------------------------------------
(* The planners: one AStarPlanner or RRTPlanner instance and the plan()    *)
(* calls on it.                                                            *)

EmptyMap == <<>>

\* The field initialisers of AStarPlanner and the caller's record of returns.
AFields ==
    /\ aNodes = <<>>
    /\ openSet = <<>>
    /\ closedSet = <<>>
    /\ nodeMap = EmptyMap
    /\ iteration = 0
    /\ aPc = "idle"
    /\ aOutcome = "none"
    /\ aPath = <<>>
    /\ aReturned = <<>>

\* The field initialiser of RRTPlanner.
RFields ==
    /\ nodes = <<>>
    /\ rIteration = 0
    /\ rPc = "idle"
    /\ rOutcome = "none"
    /\ rCurrent = 0
    /\ rPath = <<>>

\* No smoothPath call is in progress.
SFields ==
    /\ sPath = <<>>
    /\ sPoints = 0
    /\ sPc = "idle"
    /\ smoothed = <<>>

\* No generateTrajectoryFromPath call was made.
TFields ==
    /\ tPath = <<>>
    /\ tCalls = <<>>

\* The state of a DroneSimulator after construction.
DFields ==
    /\ droneState = <<>>
    /\ arrays = <<>>
    /\ trajectoryPoints = 0
    /\ dCalls = <<>>

\* No AlgorithmParser call was made.
PFields ==
    /\ pConfig = <<>>
    /\ pPc = <<>>
    /\ pTrajectory = <<>>
    /\ pErrors = <<>>

\* No clearance query was made.
QFields ==
    /\ qFrom = P(0, 0, 0)
    /\ qTo = P(0, 0, 0)
    /\ qPc = "idle"
    /\ qClear = [path |-> FALSE, from |-> FALSE, to |-> FALSE]

\* The planner configuration of the specifications that construct no planner.
NoPlanner ==
    /\ algorithm = "astar"
    /\ config = Scenario(P(0, 0, 0), P(0, 0, 0), <<>>, 0, 0, 0)
    /\ AFields
    /\ RFields

Init ==
    /\ \/ algorithm = "astar" /\ config \in Scenarios
       \/ algorithm = "rrt" /\ config \in RScenarios
    /\ AFields
    /\ RFields
    /\ SFields
    /\ TFields
    /\ DFields
    /\ PFields
    /\ QFields

ANext ==
    \/ APlanBegin
    \/ APlanOpenEmpty
    \/ APlanFound
    \/ APlanExpand
    \/ APlanExhausted

RNext ==
    \/ RPlanBegin
    \/ RPlanReject
    \/ RPlanGrow
    \/ RPlanReach
    \/ RPlanExhausted
    \/ RReconstructStep
    \/ RReconstructReturn

Next == ANext \/ RNext

Spec == Init /\ [][Next]_vars

\* The steps inside a plan() call.
PlanStep ==
    \/ APlanOpenEmpty
    \/ APlanFound
    \/ APlanExpand
    \/ APlanExhausted
    \/ RPlanReject
    \/ RPlanGrow
    \/ RPlanReach
    \/ RPlanExhausted
    \/ RReconstructStep
    \/ RReconstructReturn

\* plan() is synchronous and runs on one thread: a call that has begun
\* always takes its next step.
FairSpec == Spec /\ WF_vars(PlanStep)

-----------------------------------------------------------------------------
(* The smoother: one smoothPath call on a drawn path. *)

\* The points the paths given to smoothPath are made of.
PathPoints == {P(0, 0, 0), P(5, 5, 5), P(10, 0, 10), P(20, 5, 20)}

PathsOfLen(n) == [1..n -> PathPoints]

Paths == UNION { PathsOfLen(n) : n \in 1..MaxLen }

SInit ==
    /\ NoPlanner
    /\ TFields
    /\ DFields
    /\ PFields
    /\ QFields
    /\ sPath \in Paths
    /\ sPoints \in (0 - 1)..MaxPoints
    /\ sPc = "idle"
    /\ smoothed = <<>>

SNext == Smooth

SmoothSpec == SInit /\ [][SNext]_vars

-----------------------------------------------------------------------------
(* The resampler: generateTrajectoryFromPath calls on a drawn path. *)

\* The points the paths given to generateTrajectoryFromPath are made of:
\* 20 units apart.
TPathPoints == {P(0, 0, 0), P(0, 16, 12)}

TPaths == UNION { [1..n -> TPathPoints] : n \in 0..MaxLen }

TInit ==
    /\ NoPlanner
    /\ SFields
    /\ DFields
    /\ PFields
    /\ QFields
    /\ tPath \in TPaths
    /\ tCalls = <<>>

TNext == Resample \/ ResampleThrows

ResampleSpec == TInit /\ [][TNext]_vars

-----------------------------------------------------------------------------
(* The simulator: calls on one DroneSimulator. *)

DInit ==
    /\ NoPlanner
    /\ SFields
    /\ TFields
    /\ PFields
    /\ QFields
    /\ droneState = InitialDroneState
    /\ arrays = << <<>> >>
    /\ trajectoryPoints = 1
    /\ dCalls = <<>>

DNext ==
    \/ SetDroneState
    \/ AddTrajectoryPoint
    \/ SetTrajectoryNew
    \/ SetTrajectoryAgain
    \/ ClearTrajectory

SimulatorSpec == DInit /\ [][DNext]_vars

-----------------------------------------------------------------------------
(* The parser: generateTrajectory and validateConfig on a drawn            *)
(* AlgorithmConfig; gravity is in hundredths.                              *)

AlgorithmConfigs ==
    [name : {<<>>, <<" ", "\t">>, <<"T", "e", "s", "t">>, <<" ", "A">>},
     initialPosition : {<<0, 0, 0>>, <<10, 50, 0 - 10>>},
     maxAltitude : {Num(0 - 10), Num(0), Num(30), Num(120)},
     maxSpeed : {NaN, Num(0 - 1), Num(0), Num(20)},
     gravity : {Num(0 - 5), Num(981)}]

PInit ==
    /\ NoPlanner
    /\ SFields
    /\ TFields
    /\ DFields
    /\ QFields
    /\ pConfig \in AlgorithmConfigs
    /\ pPc = <<>>
    /\ pTrajectory = <<>>
    /\ pErrors = <<>>

PNext == GenerateTrajectory \/ ValidateConfig

ParserSpec == PInit /\ [][PNext]_vars

-----------------------------------------------------------------------------
(* The clearance queries on drawn pairs of points, zero-length segments    *)
(* included.                                                               *)

\* One obstacle of radius 1 at (4, 0, 0) and a drone of radius 1, or no
\* obstacle.
QConfigs ==
    { Scenario(P(0, 0, 0), P(10, 0, 0), <<Obstacle(4, 0, 0, 1)>>, Units(2), 1, 0),
      Scenario(P(0, 0, 0), P(10, 0, 0), <<>>, Units(2), 1, 0) }

QPoints == {P(0, 0, 0), P(2, 0, 0), P(4, 0, 0), P(4, 6, 0), P(10, 0, 0), P(10, 3, 4)}

QInit ==
    /\ algorithm \in {"astar", "rrt"}
    /\ config \in QConfigs
    /\ AFields
    /\ RFields
    /\ SFields
    /\ TFields
    /\ DFields
    /\ PFields
    /\ qFrom \in QPoints
    /\ qTo \in QPoints
    /\ qPc = "idle"
    /\ qClear = [path |-> FALSE, from |-> FALSE, to |-> FALSE]

QNext == QueryClear

ClearanceSpec == QInit /\ [][QNext]_vars

-----------------------------------------------------------------------------
(* Properties. *)

Last(path) == path[Len(path)]

ObstacleFree == Len(config.obstacles) = 0

StartAndGoalClear ==
    IsPointClear(config, config.startPos) /\ IsPointClear(config, config.endPos)

\* C1: the tree planner always terminates and returns a non-empty path: a
\* plan() call that has entered its sampling loop eventually returns, also
\* when reconstructPath runs over a tree of two or more mutually visible
\* points.
C1_TreePlannerTerminates == (rPc = "loop") ~> (rPc = "done" /\ Len(rPath) >= 1)

\* The bounds of a grid planner call: the loop variable never exceeds
\* maxIterations, a call expands at most maxIterations nodes, and every
\* returned path is non-empty.
GridPlannerBounded ==
    /\ iteration <= Max(config.maxIterations, 0)
    /\ Len(closedSet) <=
          (Len(aReturned) + (IF aPc = "loop" THEN 1 ELSE 0)) * Max(config.maxIterations, 0)
    /\ aPc = "done" => Len(aPath) >= 1
    /\ \A k \in 1..Len(aReturned) : Len(aReturned[k]) >= 1

\* C2: the grid planner always terminates after at most maxIterations
\* expansions and returns a path of at least one point, whatever the
\* outcome: a call that has entered its loop returns, within the bounds
\* above.
C2_GridPlannerTerminates ==
    /\ []GridPlannerBounded
    /\ (aPc = "loop") ~> (aPc = "done" /\ Len(aPath) >= 1)

C2_Witness ==
    /\ aPc = "done"
    /\ aOutcome = "exhausted"
    /\ config.maxIterations >= 2
    /\ iteration = config.maxIterations
    /\ Len(closedSet) = config.maxIterations

EndsAtStartAndGoal(path) ==
    /\ Len(path) >= 1
    /\ path[1] = config.startPos
    /\ Last(path) = config.endPos

\* C3: in an obstacle-free scenario plan(), of the grid planner and of the
\* tree planner alike, returns a path whose first point is scenario.start
\* and whose last point is scenario.goal: a call that has entered its loop
\* returns, and the path it returns has these end points.
C3_ObstacleFreeEndpoints ==
    /\ (ObstacleFree /\ aPc = "loop") ~> (aPc = "done" /\ EndsAtStartAndGoal(aPath))
    /\ (ObstacleFree /\ rPc = "loop") ~> (rPc = "done" /\ EndsAtStartAndGoal(rPath))

\* The distance from point to every obstacle centre is at least
\* obstacle.radius + droneRadius - 0.1 units, i.e. 5 * distance is at least
\* 5 * (radius + droneRadius) - 1 in half units.
KeepsClearance(cfg, point) ==
    \A k \in 1..Len(cfg.obstacles) :
        LET o == cfg.obstacles[k]
            least == 5 * (o.radius + cfg.droneRadius) - 1
        IN  least <= 0 \/ 25 * Dist2(point, o.position) >= least * least

PathKeepsClearance(path) == \A k \in 1..Len(path) : KeepsClearance(config, path[k])

\* C4 as stated: every point of every returned path, found or fallback,
\* keeps the clearance from every obstacle.
C4_EveryPathKeepsClearance ==
    /\ aPc = "done" => PathKeepsClearance(aPath)
    /\ rPc = "done" => PathKeepsClearance(rPath)

\* C4 as amended: when start and goal are themselves point-clear, every
\* point of every returned path, found or fallback, keeps the clearance from
\* every obstacle.
C4_ClearEndpointsPathKeepsClearance ==
    StartAndGoalClear =>
        /\ aPc = "done" => PathKeepsClearance(aPath)
        /\ rPc = "done" => PathKeepsClearance(rPath)

C4_Witness ==
    /\ StartAndGoalClear
    /\ aPc = "done"
    /\ aOutcome = "found"
    /\ Len(config.obstacles) > 0
    /\ Len(aPath) >= 3
    /\ ~IsPathClear(config, config.startPos, config.endPos)

\* The ordered fallback of the open-set-empty case: the direct segment if
\* it is clear, otherwise the detour over the raised midpoint, the midpoint
\* being left out when its segment from start is blocked.
RaisedMidpoint ==
    Vec((config.startPos.x + config.endPos.x) \div 2,
        Max(config.startPos.y, config.endPos.y) + Units(20),
        (config.startPos.z + config.endPos.z) \div 2)

OrderedFallback ==
    IF IsPathClear(config, config.startPos, config.endPos)
    THEN <<config.startPos, config.endPos>>
    ELSE IF IsPathClear(config, config.startPos, RaisedMidpoint)
         THEN <<config.startPos, RaisedMidpoint, config.endPos>>
         ELSE <<config.startPos, config.endPos>>

\* C5: when maxIterations is exhausted the grid planner returns the same
\* ordered fallback as when the open set empties: [start, goal] if the
\* direct segment is clear, and only otherwise the raised-midpoint detour.
C5_ExhaustedUsesOrderedFallback ==
    (aPc = "done" /\ aOutcome = "exhausted") => aPath = OrderedFallback

\* C6: if start or goal is not point-clear the grid planner returns exactly
\* [start, goal] and searches nothing: no node is ever created or put in
\* the open set, the closed set or the node map.
C6_BlockedEndpointsNoSearch ==
    (algorithm = "astar" /\ ~StartAndGoalClear) =>
        /\ aNodes = <<>>
        /\ openSet = <<>>
        /\ closedSet = <<>>
        /\ DOMAIN nodeMap = {}
        /\ aPc \in {"idle", "done"}
        /\ aPc = "done" => aPath = <<config.startPos, config.endPos>>
        /\ \A k \in 1..Len(aReturned) : aReturned[k] = <<config.startPos, config.endPos>>

C6_Witness ==
    /\ algorithm = "astar"
    /\ IsPointClear(config, config.startPos)
    /\ ~IsPointClear(config, config.endPos)
    /\ aPc = "done"
    /\ Len(aReturned) = 2

C8_InvalidConfigurationReturnsNoPath ==
    (config.gridSize <= 0 \/ config.maxIterations <= 0) =>
        /\ aPc # "done"
        /\ aReturned = <<>>
        /\ rPc # "done"

\* C9: a second plan() call on the same grid planner instance, the scenario
\* unchanged, returns the same path as the first call.
C9_SecondCallReturnsSamePath ==
    Len(aReturned) >= 2 => aReturned[2] = aReturned[1]

\* C10 as stated: for a path of two or more points and every
\* pointsPerSegment, the smoothed path starts at the input's first point and
\* ends at the input's last point.
C10_SmoothKeepsEndpoints ==
    (sPc = "done" /\ Len(sPath) >= 2) =>
        /\ Len(smoothed) >= 1
        /\ SamePoint(smoothed[1], Exact(sPath[1]))
        /\ SamePoint(Last(smoothed), Exact(Last(sPath)))

\* C10 as amended: for a path of two or more points and every
\* pointsPerSegment >= 1, the smoothed path starts at the input's first
\* point and ends at the input's last point.
C10_SmoothKeepsEndpointsPositive ==
    (sPc = "done" /\ Len(sPath) >= 2 /\ sPoints >= 1) =>
        /\ Len(smoothed) >= 1
        /\ SamePoint(smoothed[1], Exact(sPath[1]))
        /\ SamePoint(Last(smoothed), Exact(Last(sPath)))

C10_Witness ==
    /\ sPc = "done"
    /\ Len(sPath) = 3
    /\ sPoints = 2
    /\ sPath[1] # sPath[3]
    /\ Len(smoothed) = 5

\* C11 as stated: for a path of two or more points and every
\* pointsPerSegment, the smoothed path has strictly more points than the
\* input path.
C11_SmoothAddsPoints ==
    (sPc = "done" /\ Len(sPath) >= 2) => Len(smoothed) > Len(sPath)

\* C11 as amended: for a path of two or more points and every
\* pointsPerSegment >= 2, the smoothed path has
\* (len(input) - 1) * pointsPerSegment + 1 points, which is strictly more
\* than the input path has.
C11_SmoothAddsPointsFromTwo ==
    (sPc = "done" /\ Len(sPath) >= 2 /\ sPoints >= 2) =>
        /\ Len(smoothed) = (Len(sPath) - 1) * sPoints + 1
        /\ Len(smoothed) > Len(sPath)

C11_Witness ==
    /\ sPc = "done"
    /\ Len(sPath) = 2
    /\ sPoints = 2
    /\ Len(smoothed) = 3

\* The generateTrajectoryFromPath calls that returned a trajectory.
Returned == { k \in 1..Len(tCalls) : tCalls[k].outcome = "returned" }

\* pos is a number triple (no NaN) and equals the point p.
IsPoint(pos, p) == pos.den # 0 /\ SamePoint(pos, Exact(p))

\* C12: for every non-empty path and speed > 0 the first sample's position
\* equals path[0], also when the first segment has zero length.
C12_FirstSampleIsFirstPoint ==
    \A k \in Returned : IsPoint(tCalls[k].trajectory[1].position, tPath[1])

\* pos lies on the segment from a to b.
OnSegment(pos, a, b) ==
    /\ pos.den > 0
    /\ \E offset \in {[x |-> pos.x - a.x * pos.den, y |-> pos.y - a.y * pos.den,
                      z |-> pos.z - a.z * pos.den]} :
       \E dir \in {[x |-> b.x - a.x, y |-> b.y - a.y, z |-> b.z - a.z]} :
          /\ offset.x * dir.y = offset.y * dir.x
          /\ offset.y * dir.z = offset.z * dir.y
          /\ offset.x * dir.z = offset.z * dir.x
          /\ offset.x * dir.x + offset.y * dir.y + offset.z * dir.z >= 0
          /\ offset.x * dir.x + offset.y * dir.y + offset.z * dir.z
                <= Dist2(a, b) * pos.den

OnPath(pos, path) ==
    \/ \E j \in 1..Len(path) : IsPoint(pos, path[j])
    \/ \E j \in 1..(Len(path) - 1) : OnSegment(pos, path[j], path[j + 1])

\* The path is one point or has a zero-length segment (coincident points).
Degenerate(path) ==
    \/ Len(path) = 1
    \/ \E j \in 1..(Len(path) - 1) : path[j] = path[j + 1]

\* C13: for a path of one point, of coincident points or with a zero-length
\* segment, every sample has a well-defined position on the path: no
\* coordinate is the result of 0 / 0.
C13_DegeneratePathsGiveNumbers ==
    Degenerate(tPath) =>
        \A k \in Returned :
            \A i \in 1..Len(tCalls[k].trajectory) :
                /\ tCalls[k].trajectory[i].position.den # 0
                /\ OnPath(tCalls[k].trajectory[i].position, tPath)

\* a <= b for fractions of positive denominator
FractionLeq(a, b) == a.num * b.den <= b.num * a.den

\* C14: for every path and speed > 0 the timestamps are non-decreasing in
\* emission order, sample i carries (i / N) * totalTime with
\* totalTime = totalDistance / speed, and every sample's speed field is the
\* requested speed.
C14_TimestampsAndSpeed ==
    \A k \in Returned :
        \E samples \in {tCalls[k].trajectory} :
        \E totalDistance \in {TotalDistance(tPath)} :
            /\ \A i \in 1..Len(samples) :
                  /\ samples[i].timestamp.den > 0
                  /\ samples[i].timestamp.num * (Len(samples) * Units(1) * tCalls[k].speed)
                        = ((i - 1) * totalDistance) * samples[i].timestamp.den
                  /\ samples[i].velocity = tCalls[k].speed
            /\ \A i \in 1..(Len(samples) - 1) :
                  FractionLeq(samples[i].timestamp, samples[i + 1].timestamp)

C14_Witness ==
    \E k \in Returned :
        /\ Len(tPath) = 3
        /\ TotalDistance(tPath) > 0
        /\ tCalls[k].speed = 2
        /\ tCalls[k].trajectory[1].timestamp.num = 0
        /\ tCalls[k].trajectory[2].timestamp.num > 0

\* C15: for one path and two speeds 0 < v1 < v2 the call with v1 returns at
\* least as many samples as the call with v2, each count being
\* max(100, floor(totalTime * 10)) with totalTime = totalDistance / speed.
C15_SlowerGivesNoFewerSamples ==
    /\ \A k \in Returned :
          Len(tCalls[k].trajectory)
             = Max(100, (10 * TotalDistance(tPath)) \div (Units(1) * tCalls[k].speed))
    /\ \A k1 \in Returned : \A k2 \in Returned :
          tCalls[k1].speed < tCalls[k2].speed
             => Len(tCalls[k1].trajectory) >= Len(tCalls[k2].trajectory)

C15_Witness ==
    /\ Len(tCalls) = 2
    /\ tCalls[1].speed = 2
    /\ tCalls[2].speed = 1
    /\ Len(tCalls[1].trajectory) = 100
    /\ Len(tCalls[2].trajectory) > 100

\* The trajectory a sequence of calls leaves: that of the last
\* setTrajectory (empty if none, or if clearTrajectory came later) followed
\* by the points added since.
RECURSIVE TrajectoryAfter(_, _)
TrajectoryAfter(calls, n) ==
    IF n = 0 THEN <<>>
    ELSE IF calls[n].op = "setTrajectory" THEN calls[n].points
    ELSE IF calls[n].op = "clearTrajectory" THEN <<>>
    ELSE IF calls[n].op = "addTrajectoryPoint"
         THEN Append(TrajectoryAfter(calls, n - 1), calls[n].point)
    ELSE TrajectoryAfter(calls, n - 1)

\* C16: after any sequence of setTrajectory, addTrajectoryPoint and
\* clearTrajectory calls getTrajectoryPoints returns the trajectory of the
\* last setTrajectory (or the empty sequence) followed by the points added
\* since, in the order they were added.
C16_TrajectoryFollowsCalls ==
    getTrajectoryPoints = TrajectoryAfter(dCalls, Len(dCalls))

C16_Witness ==
    /\ Len(dCalls) = 3
    /\ dCalls[1].op = "setTrajectory"
    /\ dCalls[2].op = "addTrajectoryPoint"
    /\ dCalls[3].op = "addTrajectoryPoint"
    /\ dCalls[2].point # dCalls[3].point
    /\ Len(getTrajectoryPoints) = 4

\* The value a sequence of calls leaves in field f: that of the most recent
\* setDroneState that specified f, or the initial value.
RECURSIVE FieldAfter(_, _, _)
FieldAfter(calls, n, f) ==
    IF n = 0 THEN InitialDroneState[f]
    ELSE IF calls[n].op = "setDroneState" /\ f \in DOMAIN calls[n].state
         THEN calls[n].state[f]
    ELSE FieldAfter(calls, n - 1, f)

DroneFields == {"position", "rotation", "velocity", "battery", "status"}

\* C17: setDroneState(partial) changes exactly the fields present in the
\* partial state; after any sequence of calls each field holds the value
\* from the most recent call that specified it, or its initial value
\* (position [0,0,0], battery 100, status idle).
C17_DroneStateFollowsCalls ==
    /\ DOMAIN getDroneState = DroneFields
    /\ \A f \in DroneFields : getDroneState[f] = FieldAfter(dCalls, Len(dCalls), f)
    /\ dCalls = <<>> =>
          /\ getDroneState.position = <<0, 0, 0>>
          /\ getDroneState.battery = 100
          /\ getDroneState.status = "idle"

C17_Witness ==
    /\ Len(dCalls) = 2
    /\ dCalls[1] = [op |-> "setDroneState", state |-> [position |-> <<5, 5, 5>>]]
    /\ dCalls[2] = [op |-> "setDroneState", state |-> [battery |-> 50]]
    /\ getDroneState.position = <<5, 5, 5>>
    /\ getDroneState.battery = 50
    /\ getDroneState.status = "idle"

Generated == \E k \in 1..Len(pPc) : pPc[k] = "generateTrajectory"

Validated == \E k \in 1..Len(pPc) : pPc[k] = "validateConfig"

\* C18: for every AlgorithmConfig every point of the trajectory
\* generateTrajectory produces has altitude position[1] at most
\* initialPosition[1] + maxAltitude.
C18_AltitudeWithinMaxAltitude ==
    Generated =>
        \A k \in 1..Len(pTrajectory) :
            pTrajectory[k].position[2]
               <= 1000 * (pConfig.initialPosition[2] + pConfig.maxAltitude.value)

\* n > 0, which no NaN is.
Positive(n) == n.kind = "number" /\ n.value > 0

Contains(errors, message) == \E k \in 1..Len(errors) : errors[k] = message

\* C19: validateConfig returns the empty list exactly when the name is
\* non-blank and maxAltitude, maxSpeed and gravity are all > 0, and each
\* violated condition contributes its own message.
C19_ValidateConfigErrors ==
    Validated =>
        /\ pErrors = <<>> <=>
              /\ ~Blank(pConfig.name)
              /\ Positive(pConfig.maxAltitude)
              /\ Positive(pConfig.maxSpeed)
              /\ Positive(pConfig.gravity)
        /\ Contains(pErrors, "name must not be empty") <=> Blank(pConfig.name)
        /\ Contains(pErrors, "maxAltitude must be greater than 0")
              <=> ~Positive(pConfig.maxAltitude)
        /\ Contains(pErrors, "maxSpeed must be greater than 0")
              <=> ~Positive(pConfig.maxSpeed)
        /\ Contains(pErrors, "gravity must be greater than 0")
              <=> ~Positive(pConfig.gravity)

\* The gridStep cell of a position: each coordinate rounded to the nearest
\* multiple of gridStep.
Cell(cfg, pos) ==
    <<(2 * pos.x + cfg.gridSize) \div (2 * cfg.gridSize),
      (2 * pos.y + cfg.gridSize) \div (2 * cfg.gridSize),
      (2 * pos.z + cfg.gridSize) \div (2 * cfg.gridSize)>>

\* The neighbours getNeighbors returned for the nodes expanded so far.
ExpandedNeighbors ==
    { <<aNodes[closedSet[i]].position, nbs[k]>> :
        <<i, k, nbs>> \in
           UNION { {i} \X (1..Len(n)) \X {n} :
                   <<i, n>> \in { <<j, getNeighbors(config, aNodes[closedSet[j]].position)>> :
                                  j \in 1..Len(closedSet) } } }

\* C20: for every gridStep > 0 two candidate positions get the same key
\* only if they lie in the same gridStep cell; a node and a neighbour one
\* gridStep away never share a key.
C20_KeySeparatesCells ==
    (algorithm = "astar" /\ config.gridSize > 0) =>
        \A pair \in ExpandedNeighbors :
            /\ getNodeKey(pair[1]) # getNodeKey(pair[2])
            /\ \A other \in ExpandedNeighbors :
                  getNodeKey(pair[2]) = getNodeKey(other[2])
                     => Cell(config, pair[2]) = Cell(config, other[2])

\* The nodes created so far for the key of node i.
SameKey(i) ==
    { j \in 1..Len(aNodes) :
        getNodeKey(aNodes[j].position) = getNodeKey(aNodes[i].position) }

\* C21: a candidate replaces the node recorded for its key only if its g
\* is strictly lower: the node recorded for a key is the latest one created
\* for it, every candidate created for a key is strictly cheaper than all
\* nodes created for that key before it, and so the recorded cost is the
\* minimum g of the nodes created for the key.
C21_RecordedCostIsMinimum ==
    \A i \in 1..Len(aNodes) :
        \A key \in {getNodeKey(aNodes[i].position)} :
            /\ key \in DOMAIN nodeMap
            /\ nodeMap[key] \in SameKey(i)
            /\ \A j \in SameKey(i) :
                  /\ nodeMap[key] >= j
                  /\ aNodes[nodeMap[key]].g <= aNodes[j].g
                  /\ (j > i /\ aNodes[j].parent # 0) => aNodes[j].g < aNodes[i].g

\* A candidate has replaced a recorded node of its key.
C21_Witness ==
    \E i \in 1..Len(aNodes) :
        \E j \in SameKey(i) :
            /\ j > i
            /\ aNodes[j].parent # 0
            /\ nodeMap[getNodeKey(aNodes[i].position)] = j
            /\ aNodes[j].g < aNodes[i].g

\* The state belongs to the first plan() call on the instance, up to and
\* including its return.
FirstCall == Len(aReturned) = 0 \/ (Len(aReturned) = 1 /\ aPc = "done")

\* C22: during one plan() call the closed set never contains two nodes
\* with the same key.
C22_ClosedKeysDistinct ==
    FirstCall =>
        \A i \in 1..Len(closedSet) :
            \A j \in 1..Len(closedSet) :
                i # j => getNodeKey(aNodes[closedSet[i]].position)
                            # getNodeKey(aNodes[closedSet[j]].position)

\* Every consecutive pair of points of the path passes isPathClear.
SegmentsClear(cfg, path) ==
    \A k \in 1..(Len(path) - 1) : IsPathClear(cfg, path[k], path[k + 1])

\* C23: when the grid planner succeeds, the node it finishes from is
\* strictly within 2 * gridStep of the goal and has a clear segment to the
\* goal, the returned path is the parent chain from the start node to that
\* node followed by the goal point, and every consecutive pair of points of
\* the path is segment-clear (and every point of it point-clear).
C23_FoundPathIsParentChain ==
    (aPc = "done" /\ aOutcome = "found") =>
        /\ \E current \in 1..Len(aNodes) :
              /\ Dist2(aNodes[current].position, config.endPos)
                    < (2 * config.gridSize) * (2 * config.gridSize)
              /\ IsPathClear(config, aNodes[current].position, config.endPos)
              /\ aPath = Append(aReconstructPath(aNodes, current), config.endPos)
        /\ aPath[1] = config.startPos
        /\ SegmentsClear(config, aPath)
        /\ \A k \in 1..Len(aPath) : IsPointClear(config, aPath[k])

\* A search has succeeded from a node other than the start node.
C23_Witness == aPc = "done" /\ aOutcome = "found" /\ Len(aPath) >= 4

\* The nodes met by following parent references from node id, at most fuel
\* of them.
RECURSIVE ParentChain(_, _, _)
ParentChain(pool, id, fuel) ==
    IF id = 0 \/ fuel = 0 THEN <<>>
    ELSE <<id>> \o ParentChain(pool, pool[id].parent, fuel - 1)

\* A start node: created by plan() with no parent.
IsStartNode(n) == n.parent = 0 /\ n.position = config.startPos /\ n.g = 0

\* The chain from node id ends at a start node, visits no node twice and
\* has strictly decreasing g.
ChainToStart(id) ==
    \A chain \in {ParentChain(aNodes, id, Len(aNodes))} :
        /\ Len(chain) >= 1
        /\ IsStartNode(aNodes[chain[Len(chain)]])
        /\ FirstCall => chain[Len(chain)] = 1
        /\ \A a \in 1..Len(chain) : \A b \in 1..Len(chain) : a # b => chain[a] # chain[b]
        /\ \A k \in 1..(Len(chain) - 1) : aNodes[chain[k]].g > aNodes[chain[k + 1]].g

ParentsFormTree ==
    /\ \A k \in 1..Len(openSet) : ChainToStart(openSet[k])
    /\ \A k \in 1..Len(closedSet) : ChainToStart(closedSet[k])

\* Every node object keeps the position, costs and parent it was created with.
NodesKept ==
    /\ Len(aNodes') >= Len(aNodes)
    /\ \A i \in 1..Len(aNodes) : aNodes'[i] = aNodes[i]

\* C24: in every state of a grid search the parent references form a tree
\* rooted at the start node: a parent is set at creation and never
\* reassigned, following parents from any node of the open or closed set
\* reaches the start node without revisiting a node, and g strictly
\* decreases along that chain.
C24_ParentsFormTree == []ParentsFormTree /\ [][NodesKept]_vars

\* A node two parent references away from the start node is in the open set.
C24_Witness ==
    \E k \in 1..Len(openSet) :
        /\ aNodes[openSet[k]].parent # 0
        /\ aNodes[aNodes[openSet[k]].parent].parent # 0

\* The step expands a node: it moves it to the end of the closed set.
Expands(current) ==
    /\ Len(closedSet') = Len(closedSet) + 1
    /\ closedSet'[Len(closedSet')] = current

\* Node objects are numbered in creation order, and a node is pushed on
\* the open set when it is created: a smaller number is an earlier insertion.
ExpandsEarliestMinimum ==
    \A current \in 1..Len(aNodes) :
        Expands(current) =>
            /\ \E k \in 1..Len(openSet) : openSet[k] = current
            /\ \A k \in 1..Len(openSet) :
                  /\ F(aNodes[current]) <= F(aNodes[openSet[k]])
                  /\ F(aNodes[current]) = F(aNodes[openSet[k]]) => current <= openSet[k]

\* C25: at each iteration the node expanded has the minimum f = g + h over
\* the open set, and among the nodes of that minimum f it is the one
\* inserted earliest.
C25_ExpandsEarliestMinimum == [][ExpandsEarliestMinimum]_vars

\* The node expanded last was tied on f with a node inserted after it that
\* is still open.
C25_Witness ==
    /\ Len(closedSet) >= 1
    /\ \E k \in 1..Len(openSet) :
          \A current \in {closedSet[Len(closedSet)]} :
              /\ F(aNodes[openSet[k]]) = F(aNodes[current])
              /\ openSet[k] > current
              /\ aNodes[openSet[k]].parent # current
              /\ aNodes[openSet[k]].parent # 0

\* Every tree point other than the start is point-clear.
TreePointsClear == \A k \in 2..Len(nodes) : IsPointClear(config, nodes[k])

\* A step of the search loop leaves the node sequence alone or appends one
\* point to it: a point-clear one, with a clear segment from the tree point
\* nearest to the sample and at most 2 * gridSize away from that point.
AppendsClearPoint ==
    rPc = "loop" =>
        \/ nodes' = nodes
        \/ /\ Len(nodes') = Len(nodes) + 1
           /\ SubSeq(nodes', 1, Len(nodes)) = nodes
           /\ \A newPoint \in {nodes'[Len(nodes')]} :
                 /\ IsPointClear(config, newPoint)
                 /\ \E randomPoint \in SamplePoints \cup {config.endPos} :
                       \A nearest \in {nodes[nearestNode(nodes, randomPoint)]} :
                           /\ IsPathClear(config, nearest, newPoint)
                           /\ Dist2(nearest, newPoint)
                                 <= (2 * config.gridSize) * (2 * config.gridSize)

\* C26: the tree planner's node sequence is append-only, a new point is
\* appended only if it is point-clear and the segment from its nearest
\* tree point is segment-clear, every tree point other than the start is
\* point-clear in every reachable state, and the new point lies at most
\* 2 * gridStep from that nearest point.
C26_TreeGrowsByClearPoints == []TreePointsClear /\ [][AppendsClearPoint]_vars

\* Two points have been appended to the tree.
C26_Witness == algorithm = "rrt" /\ rPc = "loop" /\ Len(nodes) >= 3

\* C27: isPathClear(from, to) = true implies isPointClear(from) and
\* isPointClear(to), for all from and to, from = to included.
C27_ClearSegmentHasClearEndpoints ==
    (qPc = "done" /\ qClear.path) => (qClear.from /\ qClear.to)

\* The output is the input, point for point.
Unchanged(path, out) ==
    /\ Len(out) = Len(path)
    /\ \A k \in 1..Len(path) : SamePoint(out[k], Exact(path[k]))

\* The output has s points per segment and then the last input point, and
\* its point at index i * s (0-based) is input point i.
PerSegment(path, s, out) ==
    /\ Len(out) = (Len(path) - 1) * s + 1
    /\ \A i \in 0..(Len(path) - 1) :
          /\ i * s + 1 \in 1..Len(out)
          /\ SamePoint(out[i * s + 1], Exact(path[i + 1]))

\* C28 as stated: for a path of n >= 2 points and every samplesPerSegment
\* s, smooth emits s points per segment followed by the last input point:
\* (n - 1) * s + 1 points with input point i at index i * s; for n < 2 the
\* input is returned unchanged.
C28_SmoothEmitsPerSegment ==
    sPc = "done" =>
        IF Len(sPath) >= 2 THEN PerSegment(sPath, sPoints, smoothed)
        ELSE Unchanged(sPath, smoothed)

\* C28 as amended: the same for every samplesPerSegment s >= 1.
C28_SmoothEmitsPerSegmentPositive ==
    (sPc = "done" /\ (Len(sPath) >= 2 => sPoints >= 1)) =>
        IF Len(sPath) >= 2 THEN PerSegment(sPath, sPoints, smoothed)
        ELSE Unchanged(sPath, smoothed)

\* A path of three distinct points was smoothed with three points per segment.
C28_Witness ==
    /\ sPc = "done"
    /\ Len(sPath) = 3
    /\ sPoints = 3
    /\ sPath[1] # sPath[2]
    /\ sPath[2] # sPath[3]
    /\ Len(smoothed) = 7
    /\ SamePoint(smoothed[4], Exact(sPath[2]))

\* C29: for every scenario and every outcome (goal reached, start or goal
\* blocked, open set emptied, iteration cap hit) the path the grid planner
\* returns has first point scenario.start and last point scenario.goal.
C29_GridPathEndsAtStartAndGoal ==
    /\ \A k \in 1..Len(aReturned) :
          /\ Len(aReturned[k]) >= 2
          /\ EndsAtStartAndGoal(aReturned[k])
    /\ aPc = "done" =>
          /\ aOutcome \in {"blocked", "emptyDirect", "emptyAlternative", "found", "exhausted"}
          /\ aPath = Last(aReturned)

\* A first call returned a fallback path at the iteration cap and a second
\* call on the instance reached the goal.
C29_Witness ==
    /\ aPc = "done"
    /\ Len(aReturned) = 2
    /\ aOutcome = "found"
    /\ aReturned[1] = getAlternativePath(config)
    /\ aReturned[2] # aReturned[1]

\* The path passes through its final point before its end: at a distance
\* along the path below totalDistance.
VisitsFinalEarly(path) ==
    \E cum \in {CumulativeDistance(path, Len(path))} :
        \E j \in 1..(Len(path) - 1) :
            /\ cum[j] < cum[Len(cum)]
            /\ \/ path[j] = Last(path)
               \/ /\ cum[j + 1] < cum[Len(cum)]
                  /\ path[j] # path[j + 1]
                  /\ OnSegment(Exact(Last(path)), path[j], path[j + 1])

\* The call returned N = max(100, floor(totalTime * 10)) samples, and when
\* the path has positive length every timestamp is strictly below
\* totalTime = totalDistance / speed.
SamplesBeforeTotalTime(k) ==
    \E samples \in {tCalls[k].trajectory} :
    \E totalDistance \in {TotalDistance(tPath)} :
        /\ Len(samples)
              = Max(MinSamples, (10 * totalDistance) \div (Units(1) * tCalls[k].speed))
        /\ totalDistance > 0 =>
              \A i \in 1..Len(samples) :
                  /\ samples[i].timestamp.den > 0
                  /\ samples[i].timestamp.num * (Units(1) * tCalls[k].speed)
                        < totalDistance * samples[i].timestamp.den

NoSampleAtFinalPoint(k) ==
    \A i \in 1..Len(tCalls[k].trajectory) :
        ~IsPoint(tCalls[k].trajectory[i].position, Last(tPath))

\* C30 as stated: N samples at progress i / N for i = 0..N-1, every
\* timestamp strictly below totalTime when the path has positive length,
\* and no sample at the path's final point.
C30_NoSampleAtFinalPoint ==
    \A k \in Returned :
        /\ SamplesBeforeTotalTime(k)
        /\ TotalDistance(tPath) > 0 => NoSampleAtFinalPoint(k)

\* C30 as amended: N samples, every timestamp strictly below totalTime when
\* the path has positive length, and no sample at the path's final point
\* when the path does not pass through that point before its end.
C30_NoSampleAtFinalPointUnlessRevisited ==
    \A k \in Returned :
        /\ SamplesBeforeTotalTime(k)
        /\ (TotalDistance(tPath) > 0 /\ ~VisitsFinalEarly(tPath)) => NoSampleAtFinalPoint(k)

\* A path of three points that ends away from its first point was resampled.
C30_Witness ==
    \E k \in Returned :
        /\ Len(tPath) = 3
        /\ tPath[1] # tPath[3]
        /\ tPath[2] # tPath[3]
        /\ ~VisitsFinalEarly(tPath)
        /\ Len(tCalls[k].trajectory) >= MinSamples
        /\ NoSampleAtFinalPoint(k)

====
